---- MODULE Spec2Model ----
(***************************************************************************)
(* A model of the e1000 NIC driver (src/src/nic.rs): construction of the   *)
(* NIC (NIC::new), EEPROM detection, the EEPROM read handshake on the      *)
(* EECD/EERD registers, the MAC read, and the net::Interface methods.      *)
(*                                                                         *)
(* A 32-bit register value is the set of its set bit positions (0..31), so *)
(* that |, &, !, << and >> are computed bit by bit at the width of u32.    *)
(***************************************************************************)
EXTENDS Integers, Sequences, FiniteSets, TLC

VARIABLES
    dev,      \* the PhysicalDevice: status/command register options and BAR0 option
    eecd,     \* hardware register EECD (0x10) behind BAR0
    eerd,     \* hardware register EERD (0x14) behind BAR0
    eeprom,   \* the EEPROM's 16-bit words, by word address
    hwFault,  \* TRUE: the hardware never sets the done bit of EERD
    active,   \* the threads that run NIC::new on the device
    pc,       \* each thread's position in the code
    nic,      \* each thread's NIC structure (struct NIC)
    k,        \* each thread's position in read_mac: the number of words stored
    addr,     \* argument addr of the thread's current eeprom_read call
    tmp,      \* the value the thread last read with read_command
    data,     \* the value of `data` in the thread's current eeprom_read call
    polls,    \* EERD reads of the thread's current call without done, modulo PollWrap
    touched,  \* whether the thread has read or written a register of the window
    result,   \* what NIC::new has produced for the thread
    log,      \* the register accesses so far, in order, of a thread running alone
    op,       \* the last method called on the constructed NIC, "none" before the first
    ret,      \* what that method returned
    buf_len,  \* the length of the buffer passed to read or write
    rx_desc,  \* the receive descriptor passed to receive
    tx_desc,  \* the transmit descriptor passed to transmit
    tx_descs, \* the transmit descriptors populated by write, in order
    copied    \* the number of bytes copied into the caller's buffer

\* the state of the calls made on a constructed NIC
ifVars == <<op, ret, buf_len, rx_desc, tx_desc, tx_descs, copied>>

vars == <<dev, eecd, eerd, eeprom, hwFault, active, pc, nic, k, addr, tmp, data,
          polls, touched, result, log, ifVars>>

----------------------------------------------------------------------------
(* Bounds of the model *)

\* the EEPROM holds the word addresses 0..MaxAddr
MaxAddr == 2
\* the poll counter counts modulo PollWrap
PollWrap == 3

\* the 16-bit words an EEPROM cell may hold (0x1234, 0xABCD)
Words == {4660, 43981}
\* the threads
Procs == {1, 2}

----------------------------------------------------------------------------
(* Program constants *)

REG_EECD == 16
REG_EERD == 20

ERR_PCI == "Invalid PCI informations for NIC!"
ERR_BAR == "Invalid BAR for NIC!"

----------------------------------------------------------------------------
(* u32 arithmetic on sets of bit positions *)

U32 == 0..31

\* the bits of the natural number n < 2^w
Bits(n, w) == {i \in 0..(w - 1) : (n \div (2 ^ i)) % 2 = 1}

RECURSIVE Num(_)
\* the number whose set bits are v (v within bits 0..15)
Num(v) == IF v = {} THEN 0
          ELSE LET b == CHOOSE x \in v : TRUE IN (2 ^ b) + Num(v \ {b})

\* 1 << n
Bit(n) == {n}
\* the constants 0xff (n = 8) and 0xffff (n = 16)
Mask(n) == 0..(n - 1)
BitOr(a, b) == a \cup b
BitAnd(a, b) == a \cap b
BitNot(a) == U32 \ a
Shl(a, n) == {b + n : b \in a} \cap U32
Shr(a, n) == {b - n : b \in {x \in a : x >= n}}

----------------------------------------------------------------------------
(* The device and its registers *)

\* an Option<T> is the empty set (None) or a singleton (Some)
IsNone(o) == o = {}
Unwrap(o) == CHOOSE x \in o : TRUE

\* read_command(reg) returning v, and write_command(reg, v)
Rd(reg, v) == [acc |-> "read", reg |-> reg, val |-> v]
Wr(reg, v) == [acc |-> "write", reg |-> reg, val |-> v]

\* the log l of thread t extended by the access e; the accesses are recorded for a
\* thread that is the only caller on the window
LogAcc(t, l, e) == IF active = {t} THEN Append(l, e) ELSE l

\* the same for a read e of the poll loop; the loop's repeated reads of an unchanged
\* EERD are logged once
LogPoll(t, l, e) == IF l # <<>> /\ l[Len(l)] = e THEN l ELSE LogAcc(t, l, e)

\* the hardware completes the EEPROM read that the last write of EERD started:
\* done bit 4 set, start bit cleared, the address in [15:8], the word in [31:16]
HwComplete ==
    /\ ~hwFault
    /\ 0 \in eerd
    /\ 4 \notin eerd
    /\ LET a == Num(BitAnd(Shr(eerd, 8), Mask(8)))
       IN /\ a \in DOMAIN eeprom
          /\ eerd' = BitOr(Bit(4), BitOr(Shl(Bits(a, 8), 8), Shl(Bits(eeprom[a], 16), 16)))
    /\ UNCHANGED <<log, ifVars>>
    /\ UNCHANGED <<dev, eecd, eeprom, hwFault, active, pc, nic, k, addr, tmp, data,
                   polls, touched, result>>

\* the hardware changes the presence bit 8 of EECD
HwPresence ==
    /\ eecd' = (eecd \ Bit(8)) \cup (Bit(8) \ eecd)
    /\ UNCHANGED <<log, ifVars>>
    /\ UNCHANGED <<dev, eerd, eeprom, hwFault, active, pc, nic, k, addr, tmp, data,
                   polls, touched, result>>

----------------------------------------------------------------------------
(* NIC::new *)

\* PciCheck without the test of BAR0
PciCheckNoBar(d) ==
    IF IsNone(d.status) THEN ERR_PCI
    ELSE IF IsNone(d.command) THEN ERR_PCI
    ELSE ""

\* the `ok_or(..)?` checks of NIC::new, in order: the error returned, or "" for none
PciCheck(d) ==
    IF IsNone(d.status) THEN ERR_PCI
    ELSE IF IsNone(d.command) THEN ERR_PCI
    ELSE IF IsNone(d.bar0) THEN ERR_BAR
    ELSE ""

\* the struct literal of NIC::new
NewNIC(d) == [status_reg |-> Unwrap(d.status), command_reg |-> Unwrap(d.command),
              eeprom_exists |-> FALSE, mac |-> <<0, 0, 0, 0, 0, 0>>]

\* the value of a thread's NIC before NIC::new has built it
NoNIC == [status_reg |-> 0, command_reg |-> 0, eeprom_exists |-> FALSE,
          mac |-> <<0, 0, 0, 0, 0, 0>>]

\* NIC::new up to the call of detect_eeprom
New(t) ==
    /\ t \in active
    /\ pc[t] = "new"
    /\ IF PciCheck(dev) # ""
       THEN /\ result' = [result EXCEPT ![t] = PciCheck(dev)]
            /\ pc' = [pc EXCEPT ![t] = "returned"]
            /\ UNCHANGED nic
       ELSE /\ nic' = [nic EXCEPT ![t] = NewNIC(dev)]
            /\ pc' = [pc EXCEPT ![t] = "detect_eeprom"]
            /\ UNCHANGED result
    /\ UNCHANGED <<log, ifVars>>
    /\ UNCHANGED <<dev, eecd, eerd, eeprom, hwFault, active, k, addr, tmp, data,
                   polls, touched>>

\* EepromPresent testing the request bit 6 in place of the presence bit 8
EepromPresentBit6(v) == BitAnd(v, Bit(6)) # {}

\* the presence test of detect_eeprom on the value read from EECD
EepromPresent(v) == BitAnd(v, Bit(8)) # {}

\* detect_eeprom, then the entry of read_mac and of its first eeprom_read(0)
DetectEeprom(t) ==
    /\ t \in active
    /\ pc[t] = "detect_eeprom"
    /\ tmp' = [tmp EXCEPT ![t] = eecd]
    /\ nic' = [nic EXCEPT ![t].eeprom_exists = EepromPresent(eecd)]
    /\ touched' = [touched EXCEPT ![t] = TRUE]
    /\ k' = [k EXCEPT ![t] = 0]
    /\ addr' = [addr EXCEPT ![t] = 0]
    /\ pc' = [pc EXCEPT ![t] = "acquire_read"]
    /\ log' = [log EXCEPT ![t] = LogAcc(t, @, Rd(REG_EECD, eecd))]
    /\ UNCHANGED ifVars
    /\ UNCHANGED <<dev, eecd, eerd, eeprom, hwFault, active, data, polls, result>>

----------------------------------------------------------------------------
(* eeprom_read *)

\* acquire, first half: read_command(REG_EECD)
AcquireRead(t) ==
    /\ t \in active
    /\ pc[t] = "acquire_read"
    /\ tmp' = [tmp EXCEPT ![t] = eecd]
    /\ touched' = [touched EXCEPT ![t] = TRUE]
    /\ pc' = [pc EXCEPT ![t] = "acquire_write"]
    /\ log' = [log EXCEPT ![t] = LogAcc(t, @, Rd(REG_EECD, eecd))]
    /\ UNCHANGED ifVars
    /\ UNCHANGED <<dev, eecd, eerd, eeprom, hwFault, active, nic, k, addr, data,
                   polls, result>>

\* AcquireWrite writing the value back without the request bit
AcquireWriteNoReq(t) ==
    /\ t \in active
    /\ pc[t] = "acquire_write"
    /\ eecd' = tmp[t]
    /\ pc' = [pc EXCEPT ![t] = "issue"]
    /\ log' = [log EXCEPT ![t] = LogAcc(t, @, Wr(REG_EECD, tmp[t]))]
    /\ UNCHANGED ifVars
    /\ UNCHANGED <<dev, eerd, eeprom, hwFault, active, nic, k, addr, tmp, data,
                   polls, touched, result>>

\* acquire, second half: write_command(REG_EECD, value read | (1 << 6))
AcquireWrite(t) ==
    /\ t \in active
    /\ pc[t] = "acquire_write"
    /\ eecd' = BitOr(tmp[t], Bit(6))
    /\ pc' = [pc EXCEPT ![t] = "issue"]
    /\ log' = [log EXCEPT ![t] = LogAcc(t, @, Wr(REG_EECD, BitOr(tmp[t], Bit(6))))]
    /\ UNCHANGED ifVars
    /\ UNCHANGED <<dev, eerd, eeprom, hwFault, active, nic, k, addr, tmp, data,
                   polls, touched, result>>

\* the value written to EERD for the word address a
ReadCmd(a) == BitOr(Bit(0), Shl(Bits(a, 8), 8))

\* write_command(REG_EERD, 1 | (addr << 8)), then the test of eeprom_exists; the data
\* field of EERD is undefined until the hardware sets the done bit
Issue(t) ==
    /\ t \in active
    /\ pc[t] = "issue"
    /\ \E g \in Words : eerd' = BitOr(ReadCmd(addr[t]), Shl(Bits(g, 16), 16))
    /\ polls' = [polls EXCEPT ![t] = 0]
    /\ pc' = [pc EXCEPT ![t] = IF nic[t].eeprom_exists THEN "poll" ELSE "todo_flash"]
    /\ log' = [log EXCEPT ![t] = LogAcc(t, @, Wr(REG_EERD, ReadCmd(addr[t])))]
    /\ UNCHANGED ifVars
    /\ UNCHANGED <<dev, eecd, eeprom, hwFault, active, nic, k, addr, tmp, data,
                   touched, result>>

\* the else branch of eeprom_read: todo!()
TodoFlash(t) ==
    /\ t \in active
    /\ pc[t] = "todo_flash"
    /\ pc' = [pc EXCEPT ![t] = "panicked"]
    /\ result' = [result EXCEPT ![t] = "panic"]
    /\ UNCHANGED <<log, ifVars>>
    /\ UNCHANGED <<dev, eecd, eerd, eeprom, hwFault, active, nic, k, addr, tmp, data,
                   polls, touched>>

\* the done test of the poll loop
Done(v) == BitAnd(v, Bit(4)) # {}
\* DataOf without the shift: the low half of the value
DataOfLow(v) == BitAnd(v, Mask(16))
\* the word extracted from a value read from EERD
DataOf(v) == BitAnd(Shr(v, 16), Mask(16))

\* one iteration of the poll loop: read EERD, break with the data if done is set
Poll(t) ==
    /\ t \in active
    /\ pc[t] = "poll"
    /\ tmp' = [tmp EXCEPT ![t] = eerd]
    /\ IF Done(eerd)
       THEN /\ data' = [data EXCEPT ![t] = DataOf(eerd)]
            /\ pc' = [pc EXCEPT ![t] = "release_read"]
            /\ UNCHANGED polls
       ELSE /\ polls' = [polls EXCEPT ![t] = (polls[t] + 1) % PollWrap]
            /\ UNCHANGED <<data, pc>>
    /\ log' = [log EXCEPT ![t] = LogPoll(t, @, Rd(REG_EERD, eerd))]
    /\ UNCHANGED ifVars
    /\ UNCHANGED <<dev, eecd, eerd, eeprom, hwFault, active, nic, k, addr,
                   touched, result>>

\* release, first half: read_command(REG_EECD)
ReleaseRead(t) ==
    /\ t \in active
    /\ pc[t] = "release_read"
    /\ tmp' = [tmp EXCEPT ![t] = eecd]
    /\ pc' = [pc EXCEPT ![t] = "release_write"]
    /\ log' = [log EXCEPT ![t] = LogAcc(t, @, Rd(REG_EECD, eecd))]
    /\ UNCHANGED ifVars
    /\ UNCHANGED <<dev, eecd, eerd, eeprom, hwFault, active, nic, k, addr, data,
                   polls, touched, result>>

\* ReleaseWrite writing zero: every bit of EECD cleared
ReleaseWriteClearAll(t) ==
    /\ t \in active
    /\ pc[t] = "release_write"
    /\ eecd' = {}
    /\ pc' = [pc EXCEPT ![t] = "mac_store"]
    /\ log' = [log EXCEPT ![t] = LogAcc(t, @, Wr(REG_EECD, {}))]
    /\ UNCHANGED ifVars
    /\ UNCHANGED <<dev, eerd, eeprom, hwFault, active, nic, k, addr, tmp, data,
                   polls, touched, result>>

\* release, second half: write_command(REG_EECD, value read & !(1 << 6)); return data
ReleaseWrite(t) ==
    /\ t \in active
    /\ pc[t] = "release_write"
    /\ eecd' = BitAnd(tmp[t], BitNot(Bit(6)))
    /\ pc' = [pc EXCEPT ![t] = "mac_store"]
    /\ log' = [log EXCEPT ![t] = LogAcc(t, @, Wr(REG_EECD, BitAnd(tmp[t], BitNot(Bit(6)))))]
    /\ UNCHANGED ifVars
    /\ UNCHANGED <<dev, eerd, eeprom, hwFault, active, nic, k, addr, tmp, data,
                   polls, touched, result>>

----------------------------------------------------------------------------
(* read_mac *)

\* (val & 0xff) as u8 and ((val >> 8) & 0xff) as u8
LoByte(v) == Num(BitAnd(v, Mask(8)))
HiByte(v) == Num(BitAnd(Shr(v, 8), Mask(8)))

\* StoreWord with the high byte first
StoreWordSwapped(mac, i, val) ==
    [mac EXCEPT ![2 * i + 1] = HiByte(val), ![2 * i + 2] = LoByte(val)]

\* the mac after storing the two bytes of val as the i-th word (i = 0, 1, 2)
StoreWord(mac, i, val) ==
    [mac EXCEPT ![2 * i + 1] = LoByte(val), ![2 * i + 2] = HiByte(val)]

\* MacStore returning to NIC::new after two words
MacStoreTwo(t) ==
    /\ t \in active
    /\ pc[t] = "mac_store"
    /\ nic' = [nic EXCEPT ![t].mac = StoreWord(nic[t].mac, k[t], data[t])]
    /\ k' = [k EXCEPT ![t] = k[t] + 1]
    /\ IF k[t] + 1 < 2
       THEN /\ addr' = [addr EXCEPT ![t] = k[t] + 1]
            /\ pc' = [pc EXCEPT ![t] = "acquire_read"]
       ELSE /\ pc' = [pc EXCEPT ![t] = "init_desc"]
            /\ UNCHANGED addr
    /\ UNCHANGED <<log, ifVars>>
    /\ UNCHANGED <<dev, eecd, eerd, eeprom, hwFault, active, tmp, data, polls,
                   touched, result>>

\* read_mac after the return of an eeprom_read: store the two bytes, then call
\* eeprom_read for the next word or return to NIC::new
MacStore(t) ==
    /\ t \in active
    /\ pc[t] = "mac_store"
    /\ nic' = [nic EXCEPT ![t].mac = StoreWord(nic[t].mac, k[t], data[t])]
    /\ k' = [k EXCEPT ![t] = k[t] + 1]
    /\ IF k[t] + 1 < 3
       THEN /\ addr' = [addr EXCEPT ![t] = k[t] + 1]
            /\ pc' = [pc EXCEPT ![t] = "acquire_read"]
       ELSE /\ pc' = [pc EXCEPT ![t] = "init_desc"]
            /\ UNCHANGED addr
    /\ UNCHANGED <<log, ifVars>>
    /\ UNCHANGED <<dev, eecd, eerd, eeprom, hwFault, active, tmp, data, polls,
                   touched, result>>

----------------------------------------------------------------------------
(* init_desc *)

\* init_desc: todo!()
InitDesc(t) ==
    /\ t \in active
    /\ pc[t] = "init_desc"
    /\ pc' = [pc EXCEPT ![t] = "panicked"]
    /\ result' = [result EXCEPT ![t] = "panic"]
    /\ UNCHANGED <<log, ifVars>>
    /\ UNCHANGED <<dev, eecd, eerd, eeprom, hwFault, active, nic, k, addr, tmp, data,
                   polls, touched>>

----------------------------------------------------------------------------
(* The methods called on a constructed NIC *)

TX_CMD_EOP == 1

\* the byte string b"ethTODO"
EthName == <<101, 116, 104, 84, 79, 68, 79>>

NoRet == [kind |-> "none", bytes |-> <<>>]

\* an RXDesc with the given length, status and errors
RXDesc(l, s, e) == [addr |-> 0, length |-> l, checksum |-> 0, status |-> s,
                    errors |-> e, special |-> 0]
\* a TXDesc with the given length and command flags
TXDesc(l, c) == [addr |-> 0, length |-> l, cso |-> 0, cmd |-> c, status |-> 0,
                 css |-> 0, special |-> 0]

\* the descriptors and buffer lengths the callers pass
RXDescs == {RXDesc(l, s, e) : l \in {0, 64}, s \in {0, 1}, e \in {0, 1}}
TXDescs == {TXDesc(l, c) : l \in {64, 65535}, c \in {0, 1}}
BufLens == {0, 1, 64, 65535, 65536, 131071}

\* a method can be called on the NIC that NIC::new returned
Constructed(t) == t \in active /\ pc[t] = "returned" /\ result[t] = "Ok"

\* a method whose body is todo!()
Todo(t, name) ==
    /\ Constructed(t)
    /\ op' = name
    /\ ret' = NoRet
    /\ pc' = [pc EXCEPT ![t] = "panicked"]
    /\ UNCHANGED <<dev, eecd, eerd, eeprom, hwFault, active, nic, k, addr, tmp, data,
                   polls, touched, result, log, tx_descs, copied>>

\* NIC::receive
Receive(t) ==
    \E d \in RXDescs :
        /\ Todo(t, "receive")
        /\ rx_desc' = d
        /\ UNCHANGED <<buf_len, tx_desc>>

\* NIC::transmit
Transmit(t) ==
    \E d \in TXDescs :
        /\ Todo(t, "transmit")
        /\ tx_desc' = d
        /\ UNCHANGED <<buf_len, rx_desc>>

\* Interface::get_name
GetName(t) ==
    /\ Constructed(t)
    /\ op' = "get_name"
    /\ ret' = [kind |-> "name", bytes |-> EthName]
    /\ UNCHANGED <<dev, eecd, eerd, eeprom, hwFault, active, pc, nic, k, addr, tmp,
                   data, polls, touched, result, log, buf_len, rx_desc, tx_desc, tx_descs,
                   copied>>

\* Interface::is_up
IsUp(t) ==
    /\ Todo(t, "is_up")
    /\ UNCHANGED <<buf_len, rx_desc, tx_desc>>

\* GetMac returning a zeroed address
GetMacZero(t) ==
    /\ Constructed(t)
    /\ op' = "get_mac"
    /\ ret' = [kind |-> "mac", bytes |-> <<0, 0, 0, 0, 0, 0>>]
    /\ UNCHANGED <<dev, eecd, eerd, eeprom, hwFault, active, pc, nic, k, addr, tmp,
                   data, polls, touched, result, log, buf_len, rx_desc, tx_desc, tx_descs,
                   copied>>

\* Interface::get_mac
GetMac(t) ==
    /\ Constructed(t)
    /\ op' = "get_mac"
    /\ ret' = [kind |-> "mac", bytes |-> nic[t].mac]
    /\ UNCHANGED <<dev, eecd, eerd, eeprom, hwFault, active, pc, nic, k, addr, tmp,
                   data, polls, touched, result, log, buf_len, rx_desc, tx_desc, tx_descs,
                   copied>>

\* Interface::get_addresses
GetAddresses(t) ==
    /\ Todo(t, "get_addresses")
    /\ UNCHANGED <<buf_len, rx_desc, tx_desc>>

\* Interface::read
Read(t) ==
    \E n \in BufLens :
        /\ Todo(t, "read")
        /\ buf_len' = n
        /\ UNCHANGED <<rx_desc, tx_desc>>

\* Interface::write
Write(t) ==
    \E n \in BufLens :
        /\ Todo(t, "write")
        /\ buf_len' = n
        /\ UNCHANGED <<rx_desc, tx_desc>>

----------------------------------------------------------------------------
(* Specifications *)

\* the devices the enumeration subsystem may hand to NIC::new
Devices == [status : {{}, {16}}, command : {{}, {7}}, bar0 : {{}, {"bar0"}}]

\* the values of EECD at the start: the presence bit 8 and bit 0, set or clear
EecdStart == {{}, {0}, {8}, {0, 8}}

InitHw ==
    /\ dev \in Devices
    /\ eecd \in EecdStart
    /\ eerd = {}
    /\ eeprom \in [0..MaxAddr -> Words]
    /\ hwFault \in BOOLEAN

InitThreads ==
    /\ pc = [t \in Procs |-> "new"]
    /\ nic = [t \in Procs |-> NoNIC]
    /\ k = [t \in Procs |-> 0]
    /\ addr = [t \in Procs |-> 0]
    /\ tmp = [t \in Procs |-> {}]
    /\ data = [t \in Procs |-> {}]
    /\ polls = [t \in Procs |-> 0]
    /\ touched = [t \in Procs |-> FALSE]
    /\ result = [t \in Procs |-> "none"]
    /\ log = [t \in Procs |-> <<>>]

InitCalls ==
    /\ op = "none"
    /\ ret = NoRet
    /\ buf_len = 0
    /\ rx_desc = RXDesc(0, 0, 0)
    /\ tx_desc = TXDesc(0, 0)
    /\ tx_descs = <<>>
    /\ copied = 0

\* one call of NIC::new
Init == InitHw /\ InitThreads /\ InitCalls /\ active = {1}

\* two calls of NIC::new on the same device, on two threads
InitConc == InitHw /\ InitThreads /\ InitCalls /\ active = Procs

Step(t) ==
    \/ New(t)
    \/ DetectEeprom(t)
    \/ AcquireRead(t)
    \/ AcquireWrite(t)
    \/ Issue(t)
    \/ TodoFlash(t)
    \/ Poll(t)
    \/ ReleaseRead(t)
    \/ ReleaseWrite(t)
    \/ MacStore(t)
    \/ InitDesc(t)

Next == HwComplete \/ \E t \in Procs : Step(t)

Spec == Init /\ [][Next]_vars

\* every running thread keeps running, and working hardware completes a started read
Fairness == WF_vars(HwComplete) /\ \A t \in Procs : WF_vars(Step(t))

FairSpec == Init /\ [][Next]_vars /\ Fairness

SpecConc == InitConc /\ [][Next]_vars

\* the NIC that Ok(n) carries: the structure as read_mac leaves it on a device with
\* an EEPROM, for the calls of its methods
NICOf(d, e) ==
    [NewNIC(d) EXCEPT !.eeprom_exists = TRUE,
                      !.mac = StoreWord(StoreWord(StoreWord(NewNIC(d).mac,
                                  0, Bits(e[0], 16)), 1, Bits(e[1], 16)), 2, Bits(e[2], 16))]

InitIface ==
    /\ InitHw
    /\ InitCalls
    /\ PciCheck(dev) = ""
    /\ EepromPresent(eecd)
    /\ active = {1}
    /\ pc = [t \in Procs |-> IF t = 1 THEN "returned" ELSE "new"]
    /\ nic = [t \in Procs |-> IF t = 1 THEN NICOf(dev, eeprom) ELSE NoNIC]
    /\ k = [t \in Procs |-> IF t = 1 THEN 3 ELSE 0]
    /\ addr = [t \in Procs |-> IF t = 1 THEN 2 ELSE 0]
    /\ tmp = [t \in Procs |-> {}]
    /\ data = [t \in Procs |-> {}]
    /\ polls = [t \in Procs |-> 0]
    /\ touched = [t \in Procs |-> t = 1]
    /\ result = [t \in Procs |-> IF t = 1 THEN "Ok" ELSE "none"]
    /\ log = [t \in Procs |-> <<>>]

Call(t) ==
    \/ Receive(t)
    \/ Transmit(t)
    \/ GetName(t)
    \/ IsUp(t)
    \/ GetMac(t)
    \/ GetAddresses(t)
    \/ Read(t)
    \/ Write(t)

NextIface == \E t \in Procs : Call(t)

SpecIface == InitIface /\ [][NextIface]_vars

\* NIC::new on hardware whose presence bit changes at any time
NextEnv == Next \/ HwPresence

SpecEnv == Init /\ [][NextEnv]_vars

\* the word addresses passed to eeprom_read called on its own (0x00, 0x01, 0x02,
\* 0xAA, 0xFF)
ReadAddrs == {0, 1, 2, 170, 255}

\* one call of eeprom_read(a), for any address a, on a NIC after detect_eeprom
InitRead ==
    /\ InitCalls
    /\ dev \in {d \in Devices : PciCheck(d) = ""}
    /\ eecd \in EecdStart
    /\ eerd = {}
    /\ eeprom \in [ReadAddrs -> Words]
    /\ hwFault \in BOOLEAN
    /\ active = {1}
    /\ pc = [t \in Procs |-> IF t = 1 THEN "acquire_read" ELSE "new"]
    /\ nic = [t \in Procs |-> IF t = 1
                 THEN [NewNIC(dev) EXCEPT !.eeprom_exists = EepromPresent(eecd)]
                 ELSE NoNIC]
    /\ k = [t \in Procs |-> 0]
    /\ addr \in [Procs -> ReadAddrs]
    /\ addr[2] = 0
    /\ tmp = [t \in Procs |-> {}]
    /\ data = [t \in Procs |-> {}]
    /\ polls = [t \in Procs |-> 0]
    /\ touched = [t \in Procs |-> t = 1]
    /\ result = [t \in Procs |-> "none"]
    /\ log = [t \in Procs |-> <<>>]

ReadStep(t) ==
    \/ AcquireRead(t)
    \/ AcquireWrite(t)
    \/ Issue(t)
    \/ TodoFlash(t)
    \/ Poll(t)
    \/ ReleaseRead(t)
    \/ ReleaseWrite(t)

NextRead == HwComplete \/ \E t \in Procs : ReadStep(t)

SpecRead == InitRead /\ [][NextRead]_vars

----------------------------------------------------------------------------
(* Properties *)

\* the six bytes of the words e[0], e[1], e[2], low byte first within each word
ExpectedMac(e) == <<e[0] % 256, e[0] \div 256, e[1] % 256, e[1] \div 256,
                    e[2] % 256, e[2] \div 256>>

\* C1: once read_mac has stored the three words that the EEPROM returned at the
\* addresses 0, 1 and 2, mac is [w0 & 0xff, w0 >> 8, w1 & 0xff, w1 >> 8, w2 & 0xff,
\* w2 >> 8]
C1_MacBytes ==
    \A t \in active : k[t] = 3 => nic[t].mac = ExpectedMac(eeprom)

\* read_mac has returned on an EEPROM whose words differ
C1_Witness ==
    /\ pc[1] = "init_desc"
    /\ k[1] = 3
    /\ eeprom[0] # eeprom[1]
    /\ eeprom[1] # eeprom[2]

\* C2: in every interleaving of two concurrent eeprom_read calls, each call obtains
\* the word of the address it requested
C2_Atomic ==
    \A t \in active :
        pc[t] \in {"release_read", "release_write", "mac_store"}
            => Num(data[t]) = eeprom[addr[t]]

\* C3: when the hardware never sets the done bit, eeprom_read leaves its poll loop
C3_PollTerminates ==
    \A t \in Procs : (hwFault /\ pc[t] = "poll") ~> (pc[t] # "poll")

DevInvalid == IsNone(dev.status) \/ IsNone(dev.command) \/ IsNone(dev.bar0)

C5_NewReturnsOk ==
    \A t \in active :
        (/\ ~DevInvalid
         /\ 8 \in eecd
         /\ ~hwFault
         /\ pc[t] \in {"returned", "panicked"})
            => (pc[t] = "returned" /\ result[t] = "Ok")

\* C6: when detect_eeprom found no EEPROM, an EEPROM read neither polls EERD nor aborts
C6_AbsentNoAbort ==
    \A t \in active :
        (/\ ~DevInvalid
         /\ pc[t] \notin {"new", "detect_eeprom"}
         /\ ~nic[t].eeprom_exists)
            => pc[t] \notin {"poll", "panicked"}

MaxChunk == 65535

CeilDiv(n, d) == (n + d - 1) \div d

RECURSIVE SumLength(_)
SumLength(ds) == IF ds = <<>> THEN 0 ELSE Head(ds).length + SumLength(Tail(ds))

\* the End-of-Packet flag of a command byte
HasEOP(c) == (c \div TX_CMD_EOP) % 2 = 1

\* C8: a write of a buffer of len bytes populates exactly ceil(len / 65535) transmit
\* descriptors whose lengths sum to len, End-of-Packet set on the last and no other
C8_WriteChunks ==
    op = "write"
        => /\ Len(tx_descs) = CeilDiv(buf_len, MaxChunk)
           /\ SumLength(tx_descs) = buf_len
           /\ \A i \in 1..Len(tx_descs) : HasEOP(tx_descs[i].cmd) <=> (i = Len(tx_descs))

\* C10: receive, given a completed descriptor whose error byte is nonzero, recycles
\* the descriptor, copies nothing to the caller and does not fail
C10_ErrorsDropped ==
    (op = "receive" /\ rx_desc.status % 2 = 1 /\ rx_desc.errors # 0)
        => /\ \A t \in active : pc[t] # "panicked"
           /\ copied = 0

----------------------------------------------------------------------------
(* Properties of the register accesses *)

\* C11: get_mac returns the mac stored at construction; no call of a method changes
\* the stored mac, and no register is accessed by the time get_mac has returned
C11_MacCached ==
    /\ nic[1].mac = ExpectedMac(eeprom)
    /\ op = "get_mac" => (ret.kind = "mac" /\ ret.bytes = ExpectedMac(eeprom)
                          /\ log[1] = <<>>)

\* get_mac has returned on a NIC whose mac bytes differ
C11_Witness ==
    /\ op = "get_mac"
    /\ ret.bytes = nic[1].mac
    /\ ret.bytes[1] # ret.bytes[3]

IsRd(e, r) == e.acc = "read" /\ e.reg = r
IsWr(e, r) == e.acc = "write" /\ e.reg = r
\* a write of EECD with the request bit 6 set, and one with it clear
IsAcquire(e) == IsWr(e, REG_EECD) /\ 6 \in e.val
IsRelease(e) == IsWr(e, REG_EECD) /\ 6 \notin e.val

\* no entry of l strictly between the positions i and j satisfies P
NoneBetween(l, i, j, P(_)) == \A m \in (i + 1)..(j - 1) : ~P(l[m])

\* C12: in the accesses of an eeprom_read call, every access of EERD follows an acquire
\* with no release in between, every poll read follows the write of EERD of its call,
\* EERD is written once between an acquire and the next, and every release follows a
\* read of EERD with the done bit set, made after the call's write of EERD
C12_Order ==
    LET l == log[1]
        IsEecdWr(e) == IsWr(e, REG_EECD)
        IsEerdWr(e) == IsWr(e, REG_EERD)
    IN \A i \in 1..Len(l) :
        /\ l[i].reg = REG_EERD
              => \E j \in 1..(i - 1) : IsAcquire(l[j]) /\ NoneBetween(l, j, i, IsEecdWr)
        /\ IsRd(l[i], REG_EERD)
              => \E j \in 1..(i - 1) : IsEerdWr(l[j]) /\ NoneBetween(l, j, i, IsEecdWr)
        /\ IsEerdWr(l[i])
              => \A j \in 1..(i - 1) : IsEerdWr(l[j]) => ~NoneBetween(l, j, i, IsAcquire)
        /\ IsRelease(l[i])
              => \E j \in 1..(i - 1) : /\ IsRd(l[j], REG_EERD)
                                       /\ 4 \in l[j].val
                                       /\ NoneBetween(l, j, i, IsEerdWr)
                                       /\ NoneBetween(l, j, i, IsEecdWr)

\* a call has returned after a poll read without the done bit
C12_Witness ==
    /\ pc[1] = "mac_store"
    /\ \E i \in 1..Len(log[1]) : IsRd(log[1][i], REG_EERD) /\ 4 \notin log[1][i].val
    /\ IsRelease(log[1][Len(log[1])])

\* C13: eeprom_read(addr) writes EERD with exactly 1 | (addr << 8); once it has left the
\* poll loop, its data is bits [31:16] of the one value it read from EERD with the done
\* bit set, which is the word of addr, whatever it read with the done bit clear
C13_CmdAndData ==
    LET l == log[1]
    IN /\ \A i \in 1..Len(l) :
              IsWr(l[i], REG_EERD) => Num(l[i].val) = 1 + 256 * addr[1]
       /\ pc[1] \in {"release_read", "release_write", "mac_store"}
              => /\ Cardinality({i \in 1..Len(l) : IsRd(l[i], REG_EERD) /\ 4 \in l[i].val}) = 1
                 /\ \A i \in 1..Len(l) :
                        (IsRd(l[i], REG_EERD) /\ 4 \in l[i].val)
                            => /\ data[1] = {b - 16 : b \in {x \in l[i].val : x >= 16}}
                               /\ \A j \in (i + 1)..Len(l) : l[j].reg # REG_EERD
                 /\ Num(data[1]) = eeprom[addr[1]]

\* eeprom_read(0xFF) has returned after reading, with the done bit clear, a value
\* whose data field differs from the word returned
C13_Witness ==
    /\ pc[1] = "mac_store"
    /\ addr[1] = 255
    /\ \E i \in 1..Len(log[1]) :
           /\ IsRd(log[1][i], REG_EERD)
           /\ 4 \notin log[1][i].val
           /\ {b - 16 : b \in {x \in log[1][i].val : x >= 16}} # data[1]

\* the positions of l whose entry satisfies P
Positions(l, P(_)) == {i \in 1..Len(l) : P(l[i])}

\* C14: in NIC::new, the first access is the one read of detect_eeprom; the writes of
\* EERD are those of the addresses 0, 1, 2 in order; between two of them the first
\* call's release is written; init_desc starts after three reads, with the EEPROM
\* released
C14_Sequence ==
    LET l == log[1]
        IsEerdWr(e) == IsWr(e, REG_EERD)
        IsEecdRd(e) == IsRd(e, REG_EECD)
        W == Positions(l, IsEerdWr)
    IN /\ (pc[1] \notin {"new", "detect_eeprom"} /\ result[1] \notin {ERR_PCI, ERR_BAR})
            => (l # <<>> /\ IsEecdRd(l[1]))
       /\ (pc[1] = "acquire_read" /\ k[1] = 0) => Len(l) = 1
       /\ \A i \in W : Num(l[i].val) = 1 + 256 * Cardinality({j \in W : j < i})
       /\ Cardinality(W) <= 3
       /\ \A i \in W : \A j \in W : i < j => ~NoneBetween(l, i, j, IsRelease)
       /\ (pc[1] = "init_desc" \/ (pc[1] = "panicked" /\ k[1] = 3))
            => /\ Cardinality(W) = 3
               /\ Cardinality(Positions(l, IsEecdRd)) = 7
               /\ IsRelease(l[Len(l)])
               /\ 6 \notin eecd

\* read_mac has returned and init_desc is about to start
C14_Witness ==
    /\ pc[1] = "init_desc"
    /\ Cardinality(Positions(log[1], LAMBDA e : IsWr(e, REG_EERD))) = 3

\* C15: detect_eeprom makes one access, a read of EECD, and from then on eeprom_exists
\* is whether bit 8 of the value it read is set, whatever EECD becomes
C15_Cached ==
    /\ (pc[1] = "acquire_read" /\ k[1] = 0)
           => (Len(log[1]) = 1 /\ IsRd(log[1][1], REG_EECD))
    /\ (pc[1] \notin {"new", "detect_eeprom"} /\ result[1] \notin {ERR_PCI, ERR_BAR})
           => (nic[1].eeprom_exists <=> 8 \in log[1][1].val)

\* eeprom_exists is TRUE while bit 8 of EECD has become clear
C15_Witness ==
    /\ pc[1] \in {"poll", "release_read", "mac_store", "init_desc"}
    /\ nic[1].eeprom_exists
    /\ 8 \notin eecd
    /\ 8 \in log[1][1].val

\* C16: when a call of eeprom_read has ended, by returning or by aborting, the request
\* bit 6 of EECD is clear
C16_Released ==
    \A t \in active : pc[t] \in {"mac_store", "panicked"} => 6 \notin eecd

\* C17: when eeprom_read has returned, EECD is the value the call read from it first,
\* with bit 6 cleared, and every write of the call was one of EECD or of EERD
C17_Frame ==
    LET l == log[1]
        A == Positions(l, IsAcquire)
    IN pc[1] = "mac_store"
        => /\ A # {}
           /\ LET a == CHOOSE i \in A : \A j \in A : j <= i
              IN /\ a > 1
                 /\ IsRd(l[a - 1], REG_EECD)
                 /\ l[a].val = l[a - 1].val \cup {6}
                 /\ eecd = l[a - 1].val \ {6}
           /\ \A i \in 1..Len(l) : l[i].acc = "write" => l[i].reg \in {REG_EECD, REG_EERD}

\* eeprom_read has returned on an EECD with the bits 0 and 8 set
C17_Witness ==
    /\ pc[1] = "mac_store"
    /\ k[1] = 1
    /\ 0 \in eecd
    /\ 8 \in eecd
    /\ 6 \notin eecd

====
